---- MODULE Spec2Model ----
(***************************************************************************)
(* Model of the keyword-search workflow of the App Store keyword research  *)
(* tool: searchKeywords (normalise, batch-analyse, rank) together with     *)
(* processKeywordsBatch and analyzeKeywordParallel.  The ASO scorer        *)
(* (ASOAnalyzer.analyzeKeyword) is the environment: each issued call       *)
(* settles, at a time and in an order of the environment's choosing, with  *)
(* an analysis or with an error.                                           *)
(***************************************************************************)
EXTENDS Integers, Sequences, FiniteSets, TLC

\* ------------------------------------------------------------------ bounds

\* Largest number of comma-delimited segments of the input string.
MaxSegs == 3

\* Largest concurrency (batch width) explored.
MaxWidth == 3

\* The longest list getSimilarApps returns, and the most keywords the generator
\* returns for the main app.
MaxSimilar == 4
MaxMainKeywords == 1

\* The largest candidate pool analyzeRandomKeywords is called with on its own.
MaxPool == 6

\* The most calls of searchKeywords one process makes in a row.
MaxRuns == 2

\* The most passes of the batch loop followed when searchKeywords is called
\* with a width the command line would have refused.
MaxPasses == 5

\* ---------------------------------------------------------------- strings
\* A string is a sequence of one-character strings.

Comma == ","

\* The characters String.prototype.trim removes (the ones the inputs use).
IsWhitespace(ch) == ch = " "

\* The comma-free pieces the input strings are assembled from: a plain
\* keyword, a keyword with surrounding blanks, a blank piece, an empty piece.
RawSegments == { <<"a">>, <<" ", "b", " ">>, <<" ">>, <<>> }

RECURSIVE Join(_)
Join(segs) ==
  IF Len(segs) = 0 THEN <<>>
  ELSE IF Len(segs) = 1 THEN segs[1]
  ELSE segs[1] \o <<Comma>> \o Join(Tail(segs))

RECURSIVE SeqsUpTo(_, _)
SeqsUpTo(S, n) ==
  IF n = 0 THEN { <<>> }
  ELSE LET shorter == SeqsUpTo(S, n - 1)
       IN  shorter \cup { Append(s, x) : s \in { t \in shorter : Len(t) = n - 1 }, x \in S }

\* The keywordsString arguments explored.
InputStrings == { Join(segs) : segs \in SeqsUpTo(RawSegments, MaxSegs) \ { <<>> } }

\* The concurrency arguments explored.
Widths == 1..MaxWidth

Min(a, b) == IF a < b THEN a ELSE b
Max(a, b) == IF a > b THEN a ELSE b

\* Array.prototype.slice(start, end): 0-based, end exclusive, negative
\* indices count from the end, both clamped to the array.
JsSlice(s, start, end) ==
  LET len   == Len(s)
      from  == IF start < 0 THEN Max(len + start, 0) ELSE Min(start, len)
      final == IF end < 0 THEN Max(len + end, 0) ELSE Min(end, len)
  IN  SubSeq(s, from + 1, final)

\* String.prototype.split(','): the pieces between commas, empty ones kept.
RECURSIVE SplitFrom(_, _, _)
SplitFrom(str, pos, piece) ==
  IF pos > Len(str) THEN << piece >>
  ELSE IF str[pos] = Comma THEN << piece >> \o SplitFrom(str, pos + 1, <<>>)
  ELSE SplitFrom(str, pos + 1, Append(piece, str[pos]))

Split(str) == SplitFrom(str, 1, <<>>)

\* String.prototype.trim.
RECURSIVE TrimStart(_)
TrimStart(str) ==
  IF Len(str) > 0 /\ IsWhitespace(str[1]) THEN TrimStart(Tail(str)) ELSE str

RECURSIVE TrimEnd(_)
TrimEnd(str) ==
  IF Len(str) > 0 /\ IsWhitespace(str[Len(str)])
  THEN TrimEnd(SubSeq(str, 1, Len(str) - 1)) ELSE str

Trim(str) == TrimEnd(TrimStart(str))

\* .filter(keyword => keyword.length > 0)
RECURSIVE FilterNonEmpty(_)
FilterNonEmpty(pieces) ==
  IF Len(pieces) = 0 THEN <<>>
  ELSE IF Len(pieces[1]) > 0 THEN << pieces[1] >> \o FilterNonEmpty(Tail(pieces))
  ELSE FilterNonEmpty(Tail(pieces))

\* A variant that filters before it trims.
ParseKeywordsFilterFirst(str) ==
  LET pieces == FilterNonEmpty(Split(str))
  IN  [k \in 1..Len(pieces) |-> Trim(pieces[k])]

\* searchKeywords: split(',').map(trim).filter(length > 0)
ParseKeywords(str) ==
  LET pieces == Split(str)
  IN  FilterNonEmpty([k \in 1..Len(pieces) |-> Trim(pieces[k])])

\* ----------------------------------------------------------------- scorer

\* The score pairs the scorer may report (traffic, difficulty) with its labels.
Scores ==
  { [trafficScore |-> 50, difficultyScore |-> 30, competitionLevel |-> "medium",
     trafficLevel |-> "medium", recommendation |-> "consider"],
    [trafficScore |-> 70, difficultyScore |-> 10, competitionLevel |-> "low",
     trafficLevel |-> "high", recommendation |-> "target"],
    [trafficScore |-> 50, difficultyScore |-> 20, competitionLevel |-> "low",
     trafficLevel |-> "medium", recommendation |-> "consider"] }

\* What one call asoAnalyzer.analyzeKeyword(keyword) can settle with: an
\* analysis of that keyword, or an error.
Outcomes(keyword) ==
  { [ok |-> FALSE, message |-> "request failed"] }
    \cup { [ok |-> TRUE,
            analysis |-> [keyword |-> keyword,
                          trafficScore |-> s.trafficScore,
                          difficultyScore |-> s.difficultyScore,
                          competitionLevel |-> s.competitionLevel,
                          trafficLevel |-> s.trafficLevel,
                          recommendation |-> s.recommendation]] : s \in Scores }

\* The same with one analysis only, where the scores make no difference: in
\* the sample path and for termination.
SampleOutcomes(keyword) ==
  { o \in Outcomes(keyword) : IF o.ok THEN o.analysis.trafficScore = 70 ELSE TRUE }

\* No outcome yet for a position.
NoOutcome == [ok |-> FALSE, message |-> "none"]

\* ------------------------------------------------- analyzeKeywordParallel

\* The result built in the try branch (no error field).
SuccessResult(analysis) ==
  [keyword |-> analysis.keyword,
   trafficScore |-> analysis.trafficScore,
   difficultyScore |-> analysis.difficultyScore,
   competitionLevel |-> analysis.competitionLevel,
   trafficLevel |-> analysis.trafficLevel,
   recommendation |-> analysis.recommendation]

\* A variant whose catch branch has no keyword to report.
DegradedResultBlankKeyword(keyword, message) ==
  [keyword |-> <<>>,
   trafficScore |-> 0,
   difficultyScore |-> 0,
   competitionLevel |-> "unknown",
   trafficLevel |-> "unknown",
   recommendation |-> "analysis_failed",
   error |-> message]

\* The result built in the catch branch.
DegradedResult(keyword, message) ==
  [keyword |-> keyword,
   trafficScore |-> 0,
   difficultyScore |-> 0,
   competitionLevel |-> "unknown",
   trafficLevel |-> "unknown",
   recommendation |-> "analysis_failed",
   error |-> message]

\* The value slot of a promise that has not settled.
Unsettled ==
  [keyword |-> <<>>, trafficScore |-> 0, difficultyScore |-> 0,
   competitionLevel |-> "", trafficLevel |-> "", recommendation |-> "",
   unsettled |-> TRUE]

PendingPromise == [state |-> "pending", value |-> Unsettled]
NotIssued == [state |-> "none", value |-> Unsettled]

\* A variant without the catch branch: the scorer's error escapes.
AnalyzeKeywordParallelNoCatch(keyword, out) ==
  IF out.ok
  THEN [state |-> "fulfilled", value |-> SuccessResult(out.analysis)]
  ELSE [state |-> "rejected", value |-> Unsettled]

\* A variant whose catch branch leaves the error message out.
AnalyzeKeywordParallelNoMessage(keyword, out) ==
  IF out.ok
  THEN [state |-> "fulfilled", value |-> SuccessResult(out.analysis)]
  ELSE [state |-> "fulfilled",
        value |-> [keyword |-> keyword, trafficScore |-> 0, difficultyScore |-> 0,
                   competitionLevel |-> "unknown", trafficLevel |-> "unknown",
                   recommendation |-> "analysis_failed"]]

\* The promise analyzeKeywordParallel(keyword) settles to once the scorer's
\* call has settled with `out`.
AnalyzeKeywordParallel(keyword, out) ==
  IF out.ok
  THEN [state |-> "fulfilled", value |-> SuccessResult(out.analysis)]
  ELSE [state |-> "fulfilled", value |-> DegradedResult(keyword, out.message)]

\* ------------------------------------------------------------------ state

VARIABLES
  keywordsString,  \* searchKeywords argument: the comma-separated keywords
  concurrency,     \* searchKeywords argument, passed on as batchSize
  pc,              \* where the run stands
  keywords,        \* the parsed keyword list
  i,               \* loop index of processKeywordsBatch (0-based)
  batch,           \* the slice being processed
  promises,        \* per keyword position (1-based): its analyzeKeywordParallel promise
  results,         \* the results array
  completion,      \* indices in the current batch, in the order their calls settled
  outcome,         \* per keyword position: what the scorer's call settled with
  scorerCalls,     \* per keyword position: how many times the scorer was invoked
  delays,          \* inter-batch delays started so far
  batches,         \* the batches issued so far: first index and size
  asoAnalyzer,     \* the platform of the ASOAnalyzer constructed, "none" before
  argv,            \* process.argv.slice(2) when run from the command line
  exitCode,        \* the code process.exit was called with, "running" before
  appId,             \* analyzeApp argument
  numericAppId,      \* collectAppData: parseInt(appId, 10), 0 before
  appData,           \* collectAppData: the main app's data
  allSimilarApps,    \* collectAppData: what getSimilarApps returned
  top3SimilarApps,   \* collectAppData: allSimilarApps.slice(0, 3)
  similarAppsData,   \* collectAppData: the data of the similar apps fetched
  pos,               \* position of the for...of loop under way (1-based)
  mainAppKeywords,   \* generateAppKeywords: the main app's keywords
  similarAppKeywords,\* generateAppKeywords: the similar apps' keywords
  allKeywords,       \* generateAppKeywords: both, main first
  random5Keywords,   \* analyzeRandomKeywords: the sample
  keywordAnalysis,   \* analyzeRandomKeywords: its results array
  calls,             \* the service calls made so far, in order, with their outcome
  error,             \* the error analyzeApp rejected with, "none" before
  run                \* the number of the searchKeywords call under way, from 1

\* The state of a command-line start.
cliVars == << argv, exitCode >>

\* The state of the analyze-one-app pipeline.
appVars == << appId, numericAppId, appData, allSimilarApps, top3SimilarApps,
              similarAppsData, pos, mainAppKeywords, similarAppKeywords, allKeywords,
              random5Keywords, keywordAnalysis, calls, error >>

\* The state of a keyword search.
searchVars == << keywordsString, concurrency, keywords, i, batch, promises, results,
                 completion, outcome, scorerCalls, delays, batches >>

vars == << pc, asoAnalyzer, searchVars, cliVars, appVars, run >>

\* --------------------------------------------------- processKeywordsBatch

\* A variant that stops one index early.
LoopConditionStopsEarly(idx, len) == idx < len - 1

\* for (...; i < keywords.length; ...)
LoopCondition(idx, len) == idx < len

\* A variant that passes the width as the end index.
BatchSliceEndIsWidth(kws, idx, batchSize) == JsSlice(kws, idx, batchSize)

\* A variant whose end index is inclusive.
BatchSliceInclusiveEnd(kws, idx, batchSize) == JsSlice(kws, idx, idx + batchSize + 1)

\* const batch = keywords.slice(i, i + batchSize)
BatchSlice(kws, idx, batchSize) == JsSlice(kws, idx, idx + batchSize)

\* A variant that advances by one keyword at least.
NextIndexAtLeastOne(idx, batchSize) == idx + Max(batchSize, 1)

\* A variant that does not advance.
NextIndexStays(idx, batchSize) == idx

\* A variant that advances by one keyword instead of one batch.
NextIndexByOne(idx, batchSize) == idx + 1

\* for (...; ...; i += batchSize)
NextIndex(idx, batchSize) == idx + batchSize

\* A variant that also delays after the last batch when it is full.
NeedsDelayInclusive(idx, batchSize, len) == idx + batchSize <= len

\* if (i + batchSize < keywords.length)
NeedsDelay(idx, batchSize, len) == idx + batchSize < len

\* The promises of the current batch, in the order batch.map issued them.
BatchPromises == [k \in 1..Len(batch) |-> promises[i + k]]

\* A variant that resumes as soon as one promise has settled (Promise.race).
PromiseRaceReady(bp) ==
  \/ Len(bp) = 0
  \/ \E k \in 1..Len(bp) : bp[k].state # "pending"

\* A variant that gives up waiting: it resumes whatever the promises' state.
PromiseAllReadyOrTimedOut(bp) == TRUE

\* await Promise.all(batchPromises) resumes once every promise is fulfilled,
\* or as soon as one is rejected.
PromiseAllReady(bp) ==
  \/ \A k \in 1..Len(bp) : bp[k].state = "fulfilled"
  \/ \E k \in 1..Len(bp) : bp[k].state = "rejected"

\* A variant that takes a degraded result for a rejection.
PromiseAllRejectedOnDegraded(bp) ==
  \E k \in 1..Len(bp) : bp[k].state = "rejected" \/ "error" \in DOMAIN bp[k].value

\* Promise.all rejects when one of the promises is rejected.
PromiseAllRejected(bp) == \E k \in 1..Len(bp) : bp[k].state = "rejected"

\* A variant that collects the values in the order the promises settled.
PromiseValuesByCompletion(bp, order) ==
  [k \in 1..Len(bp) |-> IF k <= Len(order) THEN bp[order[k]].value ELSE bp[k].value]

\* The array Promise.all fulfils with: the promises' values by index.  `order`
\* lists the batch indices in the order the promises settled.
PromiseAllValues(bp, order) == [k \in 1..Len(bp) |-> bp[k].value]

\* ------------------------------------------------------------ the ranking

\* A variant whose tie-break prefers the higher difficulty.
CompareResultsDifficultyDescending(a, b) ==
  IF b.trafficScore # a.trafficScore
  THEN b.trafficScore - a.trafficScore
  ELSE b.difficultyScore - a.difficultyScore

\* results.sort comparator: traffic descending, then difficulty ascending.
CompareResults(a, b) ==
  IF b.trafficScore # a.trafficScore
  THEN b.trafficScore - a.trafficScore
  ELSE a.difficultyScore - b.difficultyScore

\* A variant that is not stable: x goes before the elements it compares equal to.
RECURSIVE InsertSortedBeforeEquals(_, _)
InsertSortedBeforeEquals(sorted, x) ==
  IF Len(sorted) = 0 THEN << x >>
  ELSE IF CompareResults(sorted[1], x) >= 0 THEN << x >> \o sorted
  ELSE << sorted[1] >> \o InsertSortedBeforeEquals(Tail(sorted), x)

\* Array.prototype.sort is stable: x goes before the first element that the
\* comparator puts after it, behind everything that compares equal.
RECURSIVE InsertSorted(_, _)
InsertSorted(sorted, x) ==
  IF Len(sorted) = 0 THEN << x >>
  ELSE IF CompareResults(sorted[1], x) > 0 THEN << x >> \o sorted
  ELSE << sorted[1] >> \o InsertSorted(Tail(sorted), x)

\* A variant that ranks only the results without an error.
RECURSIVE SortResultsWithoutFailed(_)
SortResultsWithoutFailed(rs) ==
  IF Len(rs) = 0 THEN <<>>
  ELSE IF "error" \in DOMAIN rs[Len(rs)]
       THEN SortResultsWithoutFailed(SubSeq(rs, 1, Len(rs) - 1))
       ELSE InsertSorted(SortResultsWithoutFailed(SubSeq(rs, 1, Len(rs) - 1)), rs[Len(rs)])

RECURSIVE SortResults(_)
SortResults(rs) ==
  IF Len(rs) = 0 THEN <<>>
  ELSE InsertSorted(SortResults(SubSeq(rs, 1, Len(rs) - 1)), rs[Len(rs)])

\* A variant without the early return.
NoValidKeywordsNeverTrue(kws) == FALSE

\* if (keywords.length === 0)
NoValidKeywords(kws) == Len(kws) = 0

\* ---------------------------------------------------------------- actions

\* No keyword search has started.
SearchIdle ==
  /\ keywords = <<>>
  /\ i = 0
  /\ batch = <<>>
  /\ promises = <<>>
  /\ results = <<>>
  /\ completion = <<>>
  /\ outcome = <<>>
  /\ scorerCalls = <<>>
  /\ delays = 0
  /\ batches = <<>>
  /\ asoAnalyzer = "none"
  /\ run = 1

\* Not started from the command line.
CliIdle == argv = <<>> /\ exitCode = "running"

\* analyzeApp has not been called.
\* No app data yet.
NoAppData == [id |-> 0]

\* analyzeApp's pipeline has not started.
AppPipelineIdle ==
  /\ numericAppId = 0
  /\ appData = NoAppData
  /\ allSimilarApps = <<>>
  /\ top3SimilarApps = <<>>
  /\ similarAppsData = <<>>
  /\ pos = 0
  /\ mainAppKeywords = <<>>
  /\ similarAppKeywords = <<>>
  /\ allKeywords = <<>>
  /\ random5Keywords = <<>>
  /\ keywordAnalysis = <<>>
  /\ calls = <<>>
  /\ error = "none"

\* analyzeApp has not been called.
AppIdle == appId = <<>> /\ AppPipelineIdle

\* The exit code once the promise of searchKeywords or analyzeApp has rejected:
\* when started from the command line the .catch handler exits with code 1.
ExitAfterRejection == IF argv = <<>> THEN exitCode ELSE "1"

\* A variant whose results array outlives the call.
FreshResultsKeepsPrevious(previous) == previous

\* const results = []: every call of processKeywordsBatch starts an array of
\* its own, whatever an earlier call left.
FreshResults(previous) == <<>>

\* A direct call searchKeywords(keywordsString, concurrency).
Init ==
  /\ keywordsString \in InputStrings
  /\ concurrency \in Widths
  /\ pc = "start"
  /\ CliIdle
  /\ AppIdle
  /\ asoAnalyzer = "none"
  /\ keywords = <<>>
  /\ i = 0
  /\ batch = <<>>
  /\ promises = <<>>
  /\ results = <<>>
  /\ completion = <<>>
  /\ outcome = <<>>
  /\ scorerCalls = <<>>
  /\ delays = 0
  /\ batches = <<>>
  /\ run = 1

\* searchKeywords up to the call of processKeywordsBatch: parse the keywords,
\* return [] when none is left, else enter the batch loop with i = 0.
SearchKeywords ==
  /\ pc = "start"
  /\ LET kws == ParseKeywords(keywordsString)
     IN  /\ keywords' = kws
         /\ pc' = IF NoValidKeywords(kws) THEN "returned" ELSE "loop"
         /\ asoAnalyzer' = IF NoValidKeywords(kws) THEN "none" ELSE "itunes"
         /\ promises' = [p \in 1..Len(kws) |-> NotIssued]
         /\ outcome' = [p \in 1..Len(kws) |-> NoOutcome]
         /\ scorerCalls' = [p \in 1..Len(kws) |-> 0]
  /\ i' = 0
  /\ results' = FreshResults(results)
  /\ UNCHANGED << cliVars, appVars, run >>
  /\ UNCHANGED << keywordsString, concurrency, batch, completion, delays, batches >>

\* One loop iteration up to the await: slice the batch and call
\* analyzeKeywordParallel on each keyword, which invokes the scorer.
IssueBatch ==
  /\ pc = "loop"
  /\ LoopCondition(i, Len(keywords))
  /\ LET b == BatchSlice(keywords, i, concurrency)
         issued == { p \in DOMAIN promises : p > i /\ p <= i + Len(b) }
     IN  /\ batch' = b
         /\ promises' = [p \in DOMAIN promises |->
                           IF p \in issued THEN PendingPromise ELSE promises[p]]
         /\ scorerCalls' = [p \in DOMAIN scorerCalls |->
                              IF p \in issued THEN scorerCalls[p] + 1 ELSE scorerCalls[p]]
         /\ batches' = Append(batches, [start |-> i, size |-> Len(b)])
  /\ completion' = <<>>
  /\ pc' = "await"
  /\ UNCHANGED << cliVars, appVars, run >>
  /\ UNCHANGED << asoAnalyzer, keywordsString, concurrency, keywords, i, results, outcome, delays >>

\* The scorer's call for position p settles with `out`, and the rest of
\* analyzeKeywordParallel runs.
ScorerSettles(p, out) ==
  /\ promises[p].state = "pending"
  /\ promises' = [promises EXCEPT ![p] = AnalyzeKeywordParallel(keywords[p], out)]
  /\ outcome' = [outcome EXCEPT ![p] = out]
  /\ completion' = Append(completion, p - i)
  /\ UNCHANGED << cliVars, appVars, run >>
  /\ UNCHANGED << asoAnalyzer, keywordsString, concurrency, pc, keywords, i, batch, results,
                  scorerCalls, delays, batches >>

\* Promise.all settles: push the batch results, then either start the
\* inter-batch delay or advance the index.  A rejection leaves searchKeywords
\* rejected, which the command line's .catch handler turns into exit code 1.
BatchSettled ==
  /\ pc = "await"
  /\ PromiseAllReady(BatchPromises)
  /\ IF PromiseAllRejected(BatchPromises)
     THEN /\ pc' = "rejected"
          /\ exitCode' = ExitAfterRejection
          /\ UNCHANGED << results, i, delays >>
     ELSE /\ results' = results \o PromiseAllValues(BatchPromises, completion)
          /\ exitCode' = exitCode
          /\ IF NeedsDelay(i, concurrency, Len(keywords))
             THEN /\ pc' = "delay"
                  /\ delays' = delays + 1
                  /\ i' = i
             ELSE /\ pc' = "loop"
                  /\ delays' = delays
                  /\ i' = NextIndex(i, concurrency)
  /\ UNCHANGED << argv, appVars, run >>
  /\ UNCHANGED << asoAnalyzer, keywordsString, concurrency, keywords, batch, promises,
                  completion, outcome, scorerCalls, batches >>

\* The setTimeout of the inter-batch delay fires; the loop advances.
DelayElapsed ==
  /\ pc = "delay"
  /\ i' = NextIndex(i, concurrency)
  /\ completion' = <<>>
  /\ pc' = "loop"
  /\ UNCHANGED << cliVars, appVars, run >>
  /\ UNCHANGED << asoAnalyzer, keywordsString, concurrency, keywords, batch, promises, results,
                  outcome, scorerCalls, delays, batches >>

\* The loop ends and processKeywordsBatch returns results to searchKeywords.
ReturnResults ==
  /\ pc = "loop"
  /\ ~ LoopCondition(i, Len(keywords))
  /\ completion' = <<>>
  /\ pc' = "rank"
  /\ UNCHANGED << cliVars, appVars, run >>
  /\ UNCHANGED << asoAnalyzer, keywordsString, concurrency, keywords, i, batch, promises, results,
                  outcome, scorerCalls, delays, batches >>

\* searchKeywords sorts the results in place and returns them.
Rank ==
  /\ pc = "rank"
  /\ results' = SortResults(results)
  /\ pc' = "returned"
  /\ UNCHANGED << cliVars, appVars, run >>
  /\ UNCHANGED << asoAnalyzer, keywordsString, concurrency, keywords, i, batch, promises,
                  completion, outcome, scorerCalls, delays, batches >>

Next ==
  \/ SearchKeywords
  \/ IssueBatch
  \/ \E p \in DOMAIN promises : \E out \in Outcomes(keywords[p]) : ScorerSettles(p, out)
  \/ BatchSettled
  \/ DelayElapsed
  \/ ReturnResults
  \/ Rank

Spec == Init /\ [][Next]_vars

\* ------------------------------------------------------------- scheduling

\* A step of processKeywordsBatch or of one of its scoring calls.
LoopStep ==
  \/ IssueBatch
  \/ \E p \in DOMAIN promises : \E out \in SampleOutcomes(keywords[p]) : ScorerSettles(p, out)
  \/ BatchSettled
  \/ DelayElapsed
  \/ ReturnResults

\* The event loop runs every continuation that is ready, every issued scoring
\* call settles in the end and every inter-batch delay elapses: as long as a
\* step of processKeywordsBatch is possible, one is taken.
Fairness == WF_vars(LoopStep)

\* A caller about to call searchKeywords.
InitLive ==
  /\ pc = "call"
  /\ keywordsString = <<>>
  /\ concurrency = 0
  /\ SearchIdle
  /\ CliIdle
  /\ AppIdle

\* The call searchKeywords(keywordsString, concurrency) with arguments of the
\* caller's choice.
CallSearchKeywords ==
  /\ pc = "call"
  /\ keywordsString' \in InputStrings
  /\ concurrency' \in Widths
  /\ pc' = "start"
  /\ UNCHANGED << asoAnalyzer, keywords, i, batch, promises, results, completion,
                  outcome, scorerCalls, delays, batches, cliVars, appVars, run >>

NextLive ==
  \/ CallSearchKeywords
  \/ SearchKeywords
  \/ LoopStep
  \/ Rank

SpecLive == InitLive /\ [][NextLive]_vars /\ Fairness

\* -------------------------------------------------- several calls in a row

\* The keyword strings of the calls made in a row.
RunStrings == { Join(segs) : segs \in SeqsUpTo(RawSegments, MaxSegs - 1) }

\* The keyword strings of the calls after the first: no blank or empty piece.
AgainStrings ==
  { Join(segs) : segs \in SeqsUpTo({ <<"a">>, <<" ", "b", " ">> }, MaxSegs - 1) }

\* A first call searchKeywords(keywordsString, concurrency).
InitRuns == Init /\ keywordsString \in RunStrings

\* A caller that has got the result of one call of searchKeywords calls it
\* again: new arguments, and every local of the call created anew.
SearchKeywordsAgain ==
  /\ pc = "returned"
  /\ run < MaxRuns
  /\ run' = run + 1
  /\ \E str \in AgainStrings, width \in Widths :
       LET kws == ParseKeywords(str)
       IN  /\ keywordsString' = str
           /\ concurrency' = width
           /\ keywords' = kws
           /\ pc' = IF NoValidKeywords(kws) THEN "returned" ELSE "loop"
           /\ asoAnalyzer' = IF NoValidKeywords(kws) THEN "none" ELSE "itunes"
           /\ promises' = [p \in 1..Len(kws) |-> NotIssued]
           /\ outcome' = [p \in 1..Len(kws) |-> NoOutcome]
           /\ scorerCalls' = [p \in 1..Len(kws) |-> 0]
  /\ i' = 0
  /\ results' = FreshResults(results)
  /\ batch' = <<>>
  /\ completion' = <<>>
  /\ delays' = 0
  /\ batches' = <<>>
  /\ UNCHANGED << cliVars, appVars >>

NextRuns ==
  \/ SearchKeywordsAgain
  \/ Next

SpecRuns == InitRuns /\ [][NextRuns]_vars

\* ------------------------------------------- searchKeywords called directly
\* module.exports hands out searchKeywords itself, and searchKeywords passes
\* its concurrency to processKeywordsBatch as it is: a caller that requires
\* the module chooses any number.

\* The widths a direct caller passes: zero and negative ones too.
DirectWidths == (1 - MaxWidth)..MaxWidth

InitDirect ==
  /\ pc = "start"
  /\ keywordsString \in InputStrings
  /\ concurrency \in DirectWidths
  /\ SearchIdle
  /\ CliIdle
  /\ AppIdle

\* The steps of searchKeywords, the batch loop followed for MaxPasses passes.
NextDirect ==
  \/ SearchKeywords
  \/ Len(batches) < MaxPasses /\ IssueBatch
  \/ \E p \in DOMAIN promises : \E out \in SampleOutcomes(keywords[p]) : ScorerSettles(p, out)
  \/ BatchSettled
  \/ DelayElapsed
  \/ ReturnResults
  \/ Rank

SpecDirect == InitDirect /\ [][NextDirect]_vars

\* ------------------------------------------------------------ command line

\* The decimal digits and their values.
DigitValue(ch) ==
  CASE ch = "0" -> 0 [] ch = "1" -> 1 [] ch = "2" -> 2 [] ch = "3" -> 3
    [] ch = "4" -> 4 [] ch = "5" -> 5 [] ch = "6" -> 6 [] ch = "7" -> 7
    [] ch = "8" -> 8 [] ch = "9" -> 9

IsDigit(ch) == ch \in { "0", "1", "2", "3", "4", "5", "6", "7", "8", "9" }

NaN == [nan |-> TRUE, value |-> 0]

\* The value of the longest run of digits at the front of str, after acc.
RECURSIVE DigitsValue(_, _)
DigitsValue(str, acc) ==
  IF Len(str) > 0 /\ IsDigit(str[1])
  THEN DigitsValue(Tail(str), 10 * acc + DigitValue(str[1]))
  ELSE acc

\* parseInt(str[, 10]) of a decimal string: leading blanks skipped, an optional
\* sign, then the longest run of digits; NaN when there is no digit.
ParseInt(str) ==
  LET t        == TrimStart(str)
      signed   == Len(t) > 0 /\ t[1] \in { "-", "+" }
      negative == Len(t) > 0 /\ t[1] = "-"
      digits   == IF signed THEN Tail(t) ELSE t
  IN  IF Len(digits) = 0 \/ ~ IsDigit(digits[1]) THEN NaN
      ELSE [nan |-> FALSE,
            value |-> IF negative THEN 0 - DigitsValue(digits, 0)
                      ELSE DigitsValue(digits, 0)]

\* The first argument of the search mode.
SearchFlag == << "-", "s", "e", "a", "r", "c", "h" >>

\* The concurrency arguments explored: "0", "1", "20", "21", "25", "-1", "x".
ConcurrencyArgs ==
  { << "0" >>, << "1" >>, << "2", "0" >>, << "2", "1" >>, << "2", "5" >>,
    << "-", "1" >>, << "x" >> }

\* The command lines explored: no argument, -search alone, -search with a
\* keyword string, -search with a keyword string and a concurrency.
SearchArgvs ==
  { <<>>, << SearchFlag >> }
    \cup { << SearchFlag, str >> : str \in InputStrings }
    \cup { << SearchFlag, str, c >> : str \in InputStrings, c \in ConcurrencyArgs }

\* The concurrency used when the argument is missing or falsy.
DefaultConcurrency == 3

\* The range the validation accepts.
MinConcurrency == 1
MaxConcurrency == 20

\* parseInt(args[2]) || 3
ResolveConcurrency(args) ==
  LET n == IF Len(args) < 3 THEN NaN ELSE ParseInt(args[3])
  IN  IF n.nan \/ n.value = 0 THEN DefaultConcurrency ELSE n.value

\* A variant that checks the lower end of the range only.
ConcurrencyRejectedBelowOnly(c) == c < MinConcurrency

\* if (concurrency < 1 || concurrency > 20)
ConcurrencyRejected(c) == c < MinConcurrency \/ c > MaxConcurrency

\* A start from the command line in search mode (or without arguments).
InitCli ==
  /\ pc = "main"
  /\ argv \in SearchArgvs
  /\ exitCode = "running"
  /\ keywordsString = <<>>
  /\ concurrency = 0
  /\ SearchIdle
  /\ AppIdle

\* The command-line entry, search mode: usage errors and an out-of-range
\* concurrency exit with code 1, else searchKeywords is called.
MainSearch ==
  /\ pc = "main"
  /\ IF Len(argv) = 0 THEN TRUE ELSE argv[1] = SearchFlag
  /\ IF (IF Len(argv) < 2 THEN TRUE ELSE Len(argv[2]) = 0)
     THEN /\ pc' = "exit"
          /\ exitCode' = "1"
          /\ UNCHANGED << keywordsString, concurrency >>
     ELSE LET c == ResolveConcurrency(argv)
          IN  IF ConcurrencyRejected(c)
              THEN /\ pc' = "exit"
                   /\ exitCode' = "1"
                   /\ UNCHANGED << keywordsString, concurrency >>
              ELSE /\ pc' = "start"
                   /\ exitCode' = exitCode
                   /\ keywordsString' = argv[2]
                   /\ concurrency' = c
  /\ UNCHANGED << run, argv, asoAnalyzer, appVars, keywords, i, batch, promises, results,
                  completion, outcome, scorerCalls, delays, batches >>

NextCli ==
  \/ MainSearch
  \/ Next

SpecCli == InitCli /\ [][NextCli]_vars

\* ------------------------------------------------------- analyze one app

\* The app identifiers analyzeApp is called with: "7", "7x", "0", "-3", "x", "".
AppIds ==
  { << "7" >>, << "7", "x" >>, << "0" >>, << "-", "3" >>, << "x" >>, <<>> }

\* The app identifiers given on the command line: "7", "0", "x".
CliAppIds == { << "7" >>, << "0" >>, << "x" >> }

\* if (isNaN(numericAppId) || numericAppId <= 0)
InvalidAppId(n) == n.nan \/ n.value <= 0

\* What getAppData(id) resolves with.
AppDataOf(id) == [id |-> id]

\* The lists getSimilarApps can resolve with: the first n of the similar apps
\* 11, 12, ..., and the whole list in the opposite order.
SimilarApp(k) == [id |-> 10 + k]

SimilarLists ==
  { [k \in 1..n |-> SimilarApp(k)] : n \in 0..MaxSimilar }
    \cup { [k \in 1..MaxSimilar |-> SimilarApp(MaxSimilar + 1 - k)] }

\* The keyword lists generateKeywords can resolve with for the main app, and
\* the one it resolves with for a similar app.  A keyword is a token.
MainKeywordLists == { [k \in 1..n |-> k] : n \in 0..MaxMainKeywords }

SimilarKeywords(app) == << app.id >>

\* A variant that puts the similar apps' keywords first.
AllKeywordsSimilarFirst(main, similar) == similar \o main

\* allKeywords: [...mainAppKeywords.keywords, ...similarAppKeywords]
AllKeywords(main, similar) == main \o similar

\* The errors of the services.
FetchError == "fetch failed"
GenerateError == "generation failed"
ValidationError == "App ID must be a valid numeric value"

\* A variant that keeps the whole similar-apps list.
Top3SimilarAppsUncut(all) == all

\* allSimilarApps.slice(0, 3)
Top3SimilarApps(all) == JsSlice(all, 0, 3)

\* The orders [...allKeywords].sort(() => 0.5 - Math.random()) can leave a list
\* of n entries in.
Orderings(n) ==
  { f \in [1..n -> 1..n] : \A a, b \in 1..n : a # b => f[a] # f[b] }

Shuffles(list) ==
  { [k \in 1..Len(list) |-> list[f[k]]] : f \in Orderings(Len(list)) }

\* A variant that keeps the whole shuffled list.
Random5Uncut(shuffled) == shuffled

\* shuffled.slice(0, 5)
Random5(shuffled) == JsSlice(shuffled, 0, 5)

\* A variant of analyzeApp that goes from collecting straight to scoring.
StepAfterSkipsGeneration(step) ==
  CASE step = "collectAppData" -> "analyzeRandomKeywords"
    [] step = "generateAppKeywords" -> "analyzeRandomKeywords"
    [] step = "analyzeRandomKeywords" -> "resolved"

\* analyzeApp: collectAppData, then generateAppKeywords, then
\* analyzeRandomKeywords, then the return.
StepAfter(step) ==
  CASE step = "collectAppData" -> "generateAppKeywords"
    [] step = "generateAppKeywords" -> "analyzeRandomKeywords"
    [] step = "analyzeRandomKeywords" -> "resolved"

\* A variant in which a failed main fetch lets the run go on.
AfterMainFetchIsolated(ok) == "getSimilarApps"

\* const appData = await getAppData(numericAppId), outside any try.
AfterMainFetch(ok) == IF ok THEN "getSimilarApps" ELSE "rejected"

\* A variant in which a failed fetch of the similar-apps list lets the run go
\* on without similar apps.
AfterSimilarFetchIsolated(ok) == "similarLoop"

\* const allSimilarApps = await getSimilarApps(numericAppId), outside any try.
AfterSimilarFetch(ok) == IF ok THEN "similarLoop" ELSE "rejected"

collectVars == << numericAppId, appData, allSimilarApps, top3SimilarApps, similarAppsData >>
generateVars == << mainAppKeywords, similarAppKeywords, allKeywords >>
analyzeVars == << random5Keywords, keywordAnalysis >>

Call(svc, arg, ok) == [svc |-> svc, arg |-> arg, ok |-> ok]

\* A direct call analyzeApp(appId), or a start from the command line with an
\* app identifier.
InitApp ==
  /\ keywordsString = <<>>
  /\ concurrency = 0
  /\ SearchIdle
  /\ AppPipelineIdle
  /\ exitCode = "running"
  /\ \/ pc = "analyzeApp" /\ argv = <<>> /\ appId \in AppIds
     \/ pc = "main" /\ appId = <<>> /\ argv \in { << id >> : id \in CliAppIds }

\* The command-line entry, app analysis branch.
MainApp ==
  /\ pc = "main"
  /\ Len(argv) > 0
  /\ argv[1] # SearchFlag
  /\ IF InvalidAppId(ParseInt(argv[1]))
     THEN /\ pc' = "exit"
          /\ exitCode' = "1"
          /\ appId' = appId
     ELSE /\ pc' = "analyzeApp"
          /\ exitCode' = exitCode
          /\ appId' = argv[1]
  /\ UNCHANGED << run, argv, asoAnalyzer, searchVars, collectVars, pos, generateVars,
                  analyzeVars, calls, error >>

\* analyzeApp calls collectAppData, which validates the identifier.
CollectAppData ==
  /\ pc = "analyzeApp"
  /\ LET n == ParseInt(appId)
     IN  IF InvalidAppId(n)
         THEN /\ pc' = "rejected"
              /\ error' = ValidationError
              /\ exitCode' = ExitAfterRejection
              /\ numericAppId' = numericAppId
         ELSE /\ pc' = "getAppData"
              /\ error' = error
              /\ exitCode' = exitCode
              /\ numericAppId' = n.value
  /\ UNCHANGED << run, argv, asoAnalyzer, searchVars, appId, appData, allSimilarApps,
                  top3SimilarApps, similarAppsData, pos, generateVars, analyzeVars,
                  calls >>

\* const appData = await getAppData(numericAppId)
GetMainAppData ==
  /\ pc = "getAppData"
  /\ \E ok \in BOOLEAN :
       /\ calls' = Append(calls, Call("getAppData", numericAppId, ok))
       /\ pc' = AfterMainFetch(ok)
       /\ appData' = IF ok THEN AppDataOf(numericAppId) ELSE appData
       /\ error' = IF ok THEN error ELSE FetchError
       /\ exitCode' = IF ok THEN exitCode ELSE ExitAfterRejection
  /\ UNCHANGED << run, argv, asoAnalyzer, searchVars, appId, numericAppId, allSimilarApps,
                  top3SimilarApps, similarAppsData, pos, generateVars, analyzeVars >>

\* const allSimilarApps = await getSimilarApps(numericAppId); slice(0, 3)
GetSimilarApps ==
  /\ pc = "getSimilarApps"
  /\ \/ /\ calls' = Append(calls, Call("getSimilarApps", numericAppId, FALSE))
        /\ pc' = AfterSimilarFetch(FALSE)
        /\ error' = FetchError
        /\ exitCode' = ExitAfterRejection
        /\ UNCHANGED << allSimilarApps, top3SimilarApps, similarAppsData, pos >>
     \/ \E all \in SimilarLists :
          /\ calls' = Append(calls, Call("getSimilarApps", numericAppId, TRUE))
          /\ allSimilarApps' = all
          /\ top3SimilarApps' = Top3SimilarApps(all)
          /\ similarAppsData' = <<>>
          /\ pos' = 1
          /\ pc' = AfterSimilarFetch(TRUE)
          /\ UNCHANGED << error, exitCode >>
  /\ UNCHANGED << run, argv, asoAnalyzer, searchVars, appId, numericAppId, appData,
                  generateVars, analyzeVars >>

\* One pass of the loop over top3SimilarApps: the fetch, and the push when it
\* succeeds.
GetSimilarAppData ==
  /\ pc = "similarLoop"
  /\ pos <= Len(top3SimilarApps)
  /\ \E ok \in BOOLEAN :
       /\ calls' = Append(calls, Call("getAppData", top3SimilarApps[pos].id, ok))
       /\ similarAppsData' =
            IF ok THEN Append(similarAppsData, AppDataOf(top3SimilarApps[pos].id))
            ELSE similarAppsData
  /\ pos' = pos + 1
  /\ UNCHANGED << run, pc, argv, exitCode, asoAnalyzer, searchVars, appId, numericAppId,
                  appData, allSimilarApps, top3SimilarApps, generateVars, analyzeVars,
                  error >>

\* collectAppData returns and analyzeApp goes on.
CollectAppDataReturns ==
  /\ pc = "similarLoop"
  /\ pos > Len(top3SimilarApps)
  /\ pc' = StepAfter("collectAppData")
  /\ pos' = 0
  /\ UNCHANGED << run, argv, exitCode, asoAnalyzer, searchVars, appId, collectVars,
                  generateVars, analyzeVars, calls, error >>

\* const mainAppKeywords = await generateKeywords(appData)
GenerateMainKeywords ==
  /\ pc = "generateAppKeywords"
  /\ \/ /\ calls' = Append(calls, Call("generateKeywords", appData.id, FALSE))
        /\ pc' = "rejected"
        /\ error' = GenerateError
        /\ exitCode' = ExitAfterRejection
        /\ UNCHANGED << mainAppKeywords, similarAppKeywords, pos >>
     \/ \E generated \in MainKeywordLists :
          /\ calls' = Append(calls, Call("generateKeywords", appData.id, TRUE))
          /\ mainAppKeywords' = generated
          /\ similarAppKeywords' = <<>>
          /\ pos' = 1
          /\ pc' = "generateLoop"
          /\ UNCHANGED << error, exitCode >>
  /\ UNCHANGED << run, argv, asoAnalyzer, searchVars, appId, collectVars, allKeywords,
                  analyzeVars >>

\* One pass of the loop over similarApps: the generation, and the push of its
\* keywords when it succeeds.
GenerateSimilarKeywords ==
  /\ pc = "generateLoop"
  /\ pos <= Len(similarAppsData)
  /\ \E ok \in BOOLEAN :
       /\ calls' = Append(calls, Call("generateKeywords", similarAppsData[pos].id, ok))
       /\ similarAppKeywords' =
            IF ok THEN similarAppKeywords \o SimilarKeywords(similarAppsData[pos])
            ELSE similarAppKeywords
  /\ pos' = pos + 1
  /\ UNCHANGED << run, pc, argv, exitCode, asoAnalyzer, searchVars, appId, collectVars,
                  mainAppKeywords, allKeywords, analyzeVars, error >>

\* generateAppKeywords returns and analyzeApp goes on.
GenerateAppKeywordsReturns ==
  /\ pc = "generateLoop"
  /\ pos > Len(similarAppsData)
  /\ allKeywords' = AllKeywords(mainAppKeywords, similarAppKeywords)
  /\ pc' = StepAfter("generateAppKeywords")
  /\ pos' = 0
  /\ UNCHANGED << run, argv, exitCode, asoAnalyzer, searchVars, appId, collectVars,
                  mainAppKeywords, similarAppKeywords, analyzeVars, calls, error >>

\* A variant that keeps a failed call as a zero-score entry.
PushAnalysisOrPlaceholder(list, keyword, out) ==
  Append(list, [keyword |-> keyword,
                traffic |-> IF out.ok THEN out.analysis.trafficScore ELSE 0,
                difficulty |-> IF out.ok THEN out.analysis.difficultyScore ELSE 0])

\* results.push({ keyword, traffic, difficulty }) after the await, inside the
\* try: the catch only warns.
PushAnalysis(list, keyword, out) ==
  IF out.ok
  THEN Append(list, [keyword |-> keyword,
                     traffic |-> out.analysis.trafficScore,
                     difficulty |-> out.analysis.difficultyScore])
  ELSE list

\* analyzeRandomKeywords up to its loop: shuffle, sample, new ASOAnalyzer.
AnalyzeRandomKeywords ==
  /\ pc = "analyzeRandomKeywords"
  /\ \E shuffled \in Shuffles(allKeywords) :
       random5Keywords' = Random5(shuffled)
  /\ asoAnalyzer' = "itunes"
  /\ keywordAnalysis' = <<>>
  /\ pos' = 1
  /\ pc' = "analyzeLoop"
  /\ UNCHANGED << run, argv, exitCode, searchVars, appId, collectVars, generateVars,
                  calls, error >>

\* One pass of the loop over random5Keywords: the scoring call, and the push
\* of its result when it succeeds.
AnalyzeKeyword ==
  /\ pc = "analyzeLoop"
  /\ pos <= Len(random5Keywords)
  /\ \E out \in SampleOutcomes(random5Keywords[pos]) :
       /\ calls' = Append(calls, Call("analyzeKeyword", random5Keywords[pos], out.ok))
       /\ keywordAnalysis' = PushAnalysis(keywordAnalysis, random5Keywords[pos], out)
  /\ pos' = pos + 1
  /\ UNCHANGED << run, pc, argv, exitCode, asoAnalyzer, searchVars, appId, collectVars,
                  generateVars, random5Keywords, error >>

\* analyzeRandomKeywords returns and analyzeApp resolves.
AnalyzeAppReturns ==
  /\ pc = "analyzeLoop"
  /\ pos > Len(random5Keywords)
  /\ pc' = StepAfter("analyzeRandomKeywords")
  /\ pos' = 0
  /\ UNCHANGED << run, argv, exitCode, asoAnalyzer, searchVars, appId, collectVars,
                  generateVars, analyzeVars, calls, error >>

NextApp ==
  \/ MainApp
  \/ CollectAppData
  \/ GetMainAppData
  \/ GetSimilarApps
  \/ GetSimilarAppData
  \/ CollectAppDataReturns
  \/ GenerateMainKeywords
  \/ GenerateSimilarKeywords
  \/ GenerateAppKeywordsReturns
  \/ AnalyzeRandomKeywords
  \/ AnalyzeKeyword
  \/ AnalyzeAppReturns

SpecApp == InitApp /\ [][NextApp]_vars

\* ------------------------------------------------- the sampler on its own

\* The candidate pools: the first n keyword tokens for n up to MaxPool, and a
\* pool in which a keyword occurs twice.
Pools == { [k \in 1..n |-> k] : n \in 0..MaxPool } \cup { << 1, 1, 2 >> }

\* A call analyzeRandomKeywords(allKeywords).
InitSampler ==
  /\ pc = "analyzeRandomKeywords"
  /\ allKeywords \in Pools
  /\ keywordsString = <<>>
  /\ concurrency = 0
  /\ SearchIdle
  /\ CliIdle
  /\ appId = <<>>
  /\ numericAppId = 0
  /\ appData = NoAppData
  /\ allSimilarApps = <<>>
  /\ top3SimilarApps = <<>>
  /\ similarAppsData = <<>>
  /\ pos = 0
  /\ mainAppKeywords = <<>>
  /\ similarAppKeywords = <<>>
  /\ random5Keywords = <<>>
  /\ keywordAnalysis = <<>>
  /\ calls = <<>>
  /\ error = "none"

NextSampler ==
  \/ AnalyzeRandomKeywords
  \/ AnalyzeKeyword
  \/ AnalyzeAppReturns

SpecSampler == InitSampler /\ [][NextSampler]_vars

\* ----------------------------------------------------------------- claims

Positions == DOMAIN promises

Pending == { p \in Positions : promises[p].state = "pending" }

Settled(p) == promises[p].state \in { "fulfilled", "rejected" }

\* processKeywordsBatch has returned its results (before or after the ranking).
Returned == pc \in { "rank", "returned" } /\ Len(keywords) > 0

\* A value an analyzeKeywordParallel promise was fulfilled with.
IsKeywordResult(r) == "unsettled" \notin DOMAIN r

\* ceil(len / width)
CeilDiv(len, width) == (len + width - 1) \div width

\* The batch (0-based) a keyword position (1-based) belongs to.
BatchOf(p) == (p - 1) \div concurrency

\* C1: processKeywordsBatch returns exactly as many results as it was given
\* keywords, each a success result or a failure placeholder, whatever the width
\* and whichever scoring calls fail; the results never outnumber the keywords.
C1_OneResultPerKeyword ==
  /\ Len(results) <= Len(keywords)
  /\ \A k \in 1..Len(results) : IsKeywordResult(results[k])
  /\ Returned => Len(results) = Len(keywords)

\* C1 witness: a returned run over three keywords in two batches where one
\* scoring call failed and another succeeded.
C1_Witness ==
  /\ pc = "rank"
  /\ Len(keywords) = 3
  /\ concurrency = 2
  /\ Len(results) = 3
  /\ \E p, q \in Positions : outcome[p].ok /\ ~ outcome[q].ok

\* C2: the result at position p is the one produced by the call issued for
\* input keyword p, in whatever order the calls of a batch completed.
C2_ResultsInInputOrder ==
  pc \in { "loop", "await", "delay", "rank" } =>
    \A p \in 1..Len(results) :
      /\ p \in Positions
      /\ results[p] = promises[p].value

\* C2 witness: every result has been merged, the last batch being one whose
\* second call completed before its first, with different results.
C2_Witness ==
  /\ pc = "loop"
  /\ Len(results) = Len(keywords)
  /\ Len(completion) >= 2
  /\ completion[1] > completion[2]
  /\ LET first == batches[Len(batches)].start
     IN  results[first + completion[1]] # results[first + completion[2]]

\* What keyword `kw` yields when its own scoring call settles with `out`:
\* the scorer's figures, or the failure placeholder.
ExpectedResult(kw, out) ==
  IF out.ok
  THEN [keyword |-> out.analysis.keyword,
        trafficScore |-> out.analysis.trafficScore,
        difficultyScore |-> out.analysis.difficultyScore,
        competitionLevel |-> out.analysis.competitionLevel,
        trafficLevel |-> out.analysis.trafficLevel,
        recommendation |-> out.analysis.recommendation]
  ELSE [keyword |-> kw, trafficScore |-> 0, difficultyScore |-> 0,
        competitionLevel |-> "unknown", trafficLevel |-> "unknown",
        recommendation |-> "analysis_failed", error |-> out.message]

\* C3: failure isolation.  The run never aborts, and when the scoring call of
\* some keyword k has failed, the result at every other position p is fixed
\* by keyword p and the outcome of p's own call alone, so two runs that differ
\* only in whether k's call fails agree on every other position.
C3_FailureIsolation ==
  /\ pc # "rejected"
  /\ \A k \in Positions :
       (Settled(k) /\ ~ outcome[k].ok) =>
         \A p \in (1..Len(results)) \ { k } :
           pc \in { "loop", "await", "delay", "rank" } =>
             results[p] = ExpectedResult(keywords[p], outcome[p])

\* C3 witness: a returned run in which the first call of the first batch
\* failed, and a call of the same batch and one of a later batch succeeded.
C3_Witness ==
  /\ pc = "rank"
  /\ Len(keywords) = 3
  /\ concurrency = 2
  /\ Len(results) = 3
  /\ ~ outcome[1].ok
  /\ outcome[2].ok
  /\ outcome[3].ok

\* C4: a failed scoring call never rejects analyzeKeywordParallel: its promise
\* is fulfilled with zero scores, 'unknown' levels, 'analysis_failed' and the
\* error message; a result of a successful call has no error field.
C4_DegradedResult ==
  \A p \in Positions :
    /\ promises[p].state # "rejected"
    /\ promises[p].state = "fulfilled" =>
         LET r == promises[p].value
         IN  IF outcome[p].ok
             THEN "error" \notin DOMAIN r
             ELSE /\ DOMAIN r = { "keyword", "trafficScore", "difficultyScore",
                                  "competitionLevel", "trafficLevel",
                                  "recommendation", "error" }
                  /\ r.keyword = keywords[p]
                  /\ r.trafficScore = 0
                  /\ r.difficultyScore = 0
                  /\ r.competitionLevel = "unknown"
                  /\ r.trafficLevel = "unknown"
                  /\ r.recommendation = "analysis_failed"
                  /\ r.error = outcome[p].message

\* C4 witness: one call has failed and one has succeeded, both settled.
C4_Witness ==
  \E p, q \in Positions :
    /\ promises[p].state = "fulfilled" /\ ~ outcome[p].ok
    /\ "error" \in DOMAIN promises[p].value
    /\ promises[q].state = "fulfilled" /\ outcome[q].ok

\* C5: batch barrier.  Whenever a scoring call of some batch has been issued,
\* every call of every earlier batch has settled; the batches start at
\* 0, W, 2W, ... in that order.
C5_BatchBarrier ==
  /\ \A p, q \in Positions :
       (scorerCalls[p] > 0 /\ BatchOf(q) < BatchOf(p)) => Settled(q)
  /\ \A n \in 1..Len(batches) : batches[n].start = (n - 1) * concurrency

\* C5 witness: the calls of a second batch are in flight after a first batch
\* of two calls, one failed.
C5_Witness ==
  /\ pc = "await"
  /\ Len(batches) = 2
  /\ concurrency = 2
  /\ Pending # {}
  /\ \E q \in Positions : Settled(q) /\ ~ outcome[q].ok

\* C6: at no time are more than W scoring calls issued and not yet settled.
C6_InFlightAtMostWidth == Cardinality(Pending) <= concurrency

\* C6 witness: a full batch of two calls is in flight, with more keywords
\* than the width.
C6_Witness ==
  /\ pc = "await"
  /\ concurrency = 2
  /\ Len(keywords) > concurrency
  /\ Cardinality(Pending) = concurrency

\* The keyword positions batch n covers.
BatchPositions(n) ==
  { p \in Positions : batches[n].start < p /\ p <= batches[n].start + batches[n].size }

\* C7: the input is cut into ceil(L/W) contiguous batches that cover every
\* position exactly once; every batch but the last has W keywords and the last
\* has L - W*(ceil(L/W)-1); the slice processed is that stretch of the input.
C7_Partition ==
  LET len    == Len(keywords)
      nb     == CeilDiv(len, concurrency)
  IN  /\ Len(batches) <= nb
      /\ \A n \in 1..Len(batches) :
           /\ batches[n].start = (n - 1) * concurrency
           /\ batches[n].size = IF n < nb THEN concurrency
                                ELSE len - concurrency * (nb - 1)
      /\ pc = "await" =>
           /\ Len(batch) = batches[Len(batches)].size
           /\ \A k \in 1..Len(batch) : batch[k] = keywords[i + k]
      /\ Returned =>
           /\ Len(batches) = nb
           /\ \A p \in Positions :
                Cardinality({ n \in 1..Len(batches) : p \in BatchPositions(n) }) = 1

\* C7 witness: three keywords at width two were processed as batches of
\* sizes 2 and 1.
C7_Witness ==
  /\ pc = "rank"
  /\ Len(keywords) = 3
  /\ concurrency = 2
  /\ Len(batches) = 2
  /\ batches[1].size = 2
  /\ batches[2].size = 1

\* C8: a run takes ceil(L/W)-1 inter-batch delays (none when L <= W): one
\* after each batch but the last, the next batch being issued only once the
\* delay has elapsed, and none after the last batch.
C8_DelayCount ==
  LET len == Len(keywords)
      nb  == CeilDiv(len, concurrency)
  IN  /\ pc = "await" => delays = Len(batches) - 1
      /\ pc = "delay" =>
           /\ delays = Len(batches)
           /\ Len(batches) < nb
           /\ Pending = {}
      /\ Returned =>
           /\ delays = nb - 1
           /\ len <= concurrency => delays = 0

\* C8 witness: a returned run whose last batch was full took one delay for
\* its two batches.
C8_Witness ==
  /\ pc = "rank"
  /\ Len(batches) = 2
  /\ delays = 1
  /\ batches[2].size = concurrency

\* C9: the scorer is invoked at most once for a keyword position, exactly
\* once by the time the run returns, and a failed call stays settled as
\* degraded without being issued again.
C9_NoRetries ==
  /\ \A p \in Positions : scorerCalls[p] <= 1
  /\ \A p \in Positions :
       (outcome[p] # NoOutcome /\ ~ outcome[p].ok) =>
         /\ scorerCalls[p] = 1
         /\ promises[p] = [state |-> "fulfilled",
                           value |-> ExpectedResult(keywords[p], outcome[p])]
  /\ Returned => \A p \in Positions : scorerCalls[p] = 1

\* C9 witness: a returned run of several batches in which a call of the first
\* batch failed.
C9_Witness ==
  /\ pc = "rank"
  /\ Len(batches) >= 2
  /\ ~ outcome[1].ok
  /\ scorerCalls[1] = 1

\* The order the ranking asks for between an earlier and a later element.
RanksBefore(a, b) ==
  \/ a.trafficScore > b.trafficScore
  \/ a.trafficScore = b.trafficScore /\ a.difficultyScore <= b.difficultyScore

SameKeys(a, b) ==
  a.trafficScore = b.trafficScore /\ a.difficultyScore = b.difficultyScore

\* The one-to-one maps from positions of the returned list to input positions.
PositionMaps(n) ==
  { f \in [1..n -> 1..n] : \A j, k \in 1..n : f[j] = f[k] => j = k }

\* C10: the list searchKeywords returns is ordered by trafficScore descending,
\* then difficultyScore ascending, and results equal on both keys keep the
\* order of their input positions.
C10_Ranked ==
  (pc = "returned" /\ Len(keywords) > 0) =>
    LET n == Len(results)
    IN  /\ n = Len(keywords)
        /\ \A j, k \in 1..n : j < k => RanksBefore(results[j], results[k])
        /\ \E f \in PositionMaps(n) :
             /\ \A k \in 1..n : results[k] = promises[f[k]].value
             /\ \A j, k \in 1..n :
                  (j < k /\ SameKeys(results[j], results[k])) => f[j] < f[k]

\* C10 witness: inputs scored 50/30, 70/10, 50/20 in that order are returned
\* as 70/10, 50/20, 50/30.
C10_Witness ==
  /\ pc = "returned"
  /\ Len(results) = 3
  /\ promises[1].value.trafficScore = 50 /\ promises[1].value.difficultyScore = 30
  /\ promises[2].value.trafficScore = 70 /\ promises[2].value.difficultyScore = 10
  /\ promises[3].value.trafficScore = 50 /\ promises[3].value.difficultyScore = 20
  /\ results[1] = promises[2].value
  /\ results[2] = promises[3].value
  /\ results[3] = promises[1].value

\* The values the calls produced, by keyword position: the orchestrator's output.
Orchestrated == [p \in 1..Len(promises) |-> promises[p].value]

\* C11: ranking an already ranked sequence gives the same sequence, ties on
\* both keys included.
C11_RankIdempotent ==
  pc = "returned" => SortResults(results) = results

\* C11 witness: a returned list with two neighbours equal on both keys that
\* are different results.
C11_Witness ==
  /\ pc = "returned"
  /\ \E k \in 1..(Len(results) - 1) :
       /\ SameKeys(results[k], results[k + 1])
       /\ results[k] # results[k + 1]

\* How often r occurs in seq.
Occurrences(seq, r) == Cardinality({ k \in 1..Len(seq) : seq[k] = r })

\* C12: the ranked list is a permutation of the orchestrator's output: every
\* result, with every field as the call produced it, occurs as often after the
\* ranking as before; nothing is added, dropped, duplicated or altered.
C12_RankPermutes ==
  pc = "returned" =>
    /\ Len(results) = Len(Orchestrated)
    /\ \A k \in 1..Len(results) :
         Occurrences(results, results[k]) = Occurrences(Orchestrated, results[k])
    /\ \A p \in 1..Len(Orchestrated) :
         Occurrences(results, Orchestrated[p]) = Occurrences(Orchestrated, Orchestrated[p])

\* C12 witness: a ranking that moved a failed result behind a successful one.
C12_Witness ==
  /\ pc = "returned"
  /\ Len(results) >= 2
  /\ results # Orchestrated
  /\ "error" \in DOMAIN Orchestrated[1]
  /\ results[Len(results)] = Orchestrated[1]

\* The segment (1-based) the character at position k of str lies in: one more
\* than the commas before it.
SegmentAt(str, k) == 1 + Cardinality({ c \in 1..(k - 1) : str[c] = "," })

\* The positions of the characters of segment j that are not blanks.
Inked(str, j) ==
  { k \in 1..Len(str) : str[k] # "," /\ str[k] # " " /\ SegmentAt(str, k) = j }

SegmentCount(str) == 1 + Cardinality({ c \in 1..Len(str) : str[c] = "," })

\* The segments that are neither empty nor blank.
InkedSegments(str) == { j \in 1..SegmentCount(str) : Inked(str, j) # {} }

Lowest(S) == CHOOSE x \in S : \A y \in S : x <= y
Highest(S) == CHOOSE x \in S : \A y \in S : x >= y

\* C13: the keyword list has one element per comma-delimited segment that is
\* not empty or blank, in the order of the segments, each the segment without
\* its surrounding blanks; no element is empty or starts or ends with a blank.
C13_Normalised ==
  pc # "start" =>
    LET str == keywordsString
        segs == InkedSegments(str)
    IN  /\ Len(keywords) = Cardinality(segs)
        /\ \A j \in segs :
             keywords[Cardinality({ h \in segs : h <= j })] =
               SubSeq(str, Lowest(Inked(str, j)), Highest(Inked(str, j)))
        /\ \A n \in 1..Len(keywords) :
             /\ Len(keywords[n]) > 0
             /\ keywords[n][1] # " "
             /\ keywords[n][Len(keywords[n])] # " "

\* C13 witness: " b ,,a" is parsed to [b, a].
C13_Witness ==
  /\ pc # "start"
  /\ keywordsString = << " ", "b", " ", ",", ",", "a" >>
  /\ keywords = << <<"b">>, <<"a">> >>

\* C14: when no keyword is left after parsing, searchKeywords returns an empty
\* list without failing, constructs no scorer, issues no scoring call and
\* takes no delay.
C14_EmptyShortCircuit ==
  (pc # "start" /\ Len(ParseKeywords(keywordsString)) = 0) =>
    /\ pc = "returned"
    /\ results = <<>>
    /\ asoAnalyzer = "none"
    /\ batches = <<>>
    /\ \A p \in DOMAIN scorerCalls : scorerCalls[p] = 0
    /\ delays = 0

\* C14 witness: a blank piece and an empty piece only, and the call returned.
C14_Witness ==
  /\ pc = "returned"
  /\ keywordsString = << " ", "," >>
  /\ results = <<>>

\* A search-mode command line with a keyword string.
SearchRun == IF Len(argv) < 2 THEN FALSE ELSE argv[1] = SearchFlag /\ Len(argv[2]) > 0

NoScoringCall ==
  /\ asoAnalyzer = "none"
  /\ batches = <<>>
  /\ \A p \in DOMAIN scorerCalls : scorerCalls[p] = 0

\* C15: in search mode a concurrency argument that is a number outside 1..20
\* (0 or 25, say) is fatal: the process exits with a non-zero code and no
\* scoring call is attempted.
C15_OutOfRangeIsFatal ==
  (/\ pc # "main"
   /\ SearchRun
   /\ Len(argv) = 3
   /\ ~ ParseInt(argv[Len(argv)]).nan
   /\ ParseInt(argv[Len(argv)]).value \notin MinConcurrency..MaxConcurrency)
    => (exitCode = "1" /\ NoScoringCall)

\* C16: the width of every search started from the command line is an integer
\* in 1..20, and it is 3 when no concurrency argument is given.
C16_WidthInRange ==
  pc \notin { "main", "exit" } =>
    /\ concurrency \in MinConcurrency..MaxConcurrency
    /\ Len(argv) < 3 => concurrency = DefaultConcurrency

\* C16 witness: a batch is in flight in a run started without a concurrency
\* argument, and in a run started with the argument "20".
C16_Witness ==
  /\ pc = "await"
  /\ \/ Len(argv) = 2 /\ concurrency = 3
     \/ Len(argv) = 3 /\ argv[Len(argv)] = << "2", "0" >> /\ concurrency = 20

\* The identifier the run was given, directly or on the command line.
GivenAppId == IF argv = <<>> THEN appId ELSE argv[1]

\* A decimal numeral: an optional sign, then digits and nothing else.
IsNumericString(str) ==
  LET digits == IF Len(str) > 0 /\ str[1] \in { "-", "+" } THEN Tail(str) ELSE str
  IN  /\ Len(digits) > 0
      /\ \A k \in 1..Len(digits) : IsDigit(digits[k])

\* C17: an app identifier that is non-numeric or non-positive is fatal at
\* entry: the run fails before any call to the app data source, the keyword
\* generator or the scorer is made.
C17_InvalidIdIsFatal ==
  (/\ pc \notin { "main", "analyzeApp" }
   /\ ~ IsNumericString(GivenAppId) \/ ParseInt(GivenAppId).value <= 0)
    => /\ pc \in { "rejected", "exit" }
       /\ calls = <<>>
       /\ asoAnalyzer = "none"

\* The fetches of similar apps' data made so far: every getAppData call after
\* the main app's.
SimilarFetches ==
  SelectSeq(SubSeq(calls, 2, Len(calls)), LAMBDA c : c.svc = "getAppData")

FirstThree(all) == SubSeq(all, 1, Min(3, Len(all)))

\* collectAppData has returned.
CollectDone ==
  \/ pc \in { "generateAppKeywords", "generateLoop", "analyzeRandomKeywords",
              "analyzeLoop", "resolved" }
  \/ pc = "rejected" /\ error = GenerateError

\* C18: collectAppData fetches the data of the first 3 similar apps at most, in
\* the order getSimilarApps returned them, and of no other; similarApps is the
\* data of those whose fetch succeeded, in that order; a failed fetch leaves
\* out that app only, and the main app's data is unaffected.
C18_SimilarAppExpansion ==
  LET fetches   == SimilarFetches
      first     == FirstThree(allSimilarApps)
      succeeded == SelectSeq(fetches, LAMBDA c : c.ok)
  IN  /\ Len(fetches) <= Len(first)
      /\ \A k \in 1..Len(fetches) : fetches[k].arg = first[k].id
      /\ similarAppsData = [k \in 1..Len(succeeded) |-> AppDataOf(succeeded[k].arg)]
      /\ CollectDone =>
           /\ Len(fetches) = Len(first)
           /\ appData = AppDataOf(numericAppId)

\* C18 witness: of four similar apps three were fetched, the second fetch
\* failed, and collectAppData returned the first and the third.
C18_Witness ==
  /\ pc = "generateAppKeywords"
  /\ Len(allSimilarApps) = 4
  /\ Len(SimilarFetches) = 3
  /\ ~ SimilarFetches[2].ok
  /\ similarAppsData = << AppDataOf(allSimilarApps[1].id), AppDataOf(allSimilarApps[3].id) >>
  /\ appData = AppDataOf(numericAppId)

\* C19: a failure of the main app's fetch or of the main app's keyword
\* generation makes analyzeApp reject with that error, and no call is made
\* after the failed one.
C19_PrimaryFailureAborts ==
  /\ (calls # <<>> /\ ~ calls[1].ok) =>
       /\ pc = "rejected"
       /\ error = FetchError
       /\ Len(calls) = 1
       /\ argv # <<>> => exitCode = "1"
  /\ \A k \in 1..Len(calls) :
       (/\ calls[k].svc = "generateKeywords"
        /\ ~ calls[k].ok
        /\ \A j \in 1..(k - 1) : calls[j].svc # "generateKeywords") =>
         /\ pc = "rejected"
         /\ error = GenerateError
         /\ k = Len(calls)
         /\ asoAnalyzer = "none"
         /\ argv # <<>> => exitCode = "1"

\* C19 witness: the main app's keyword generation failed after three similar
\* apps were fetched, and analyzeApp rejected.
C19_Witness ==
  /\ pc = "rejected"
  /\ Len(similarAppsData) = 3
  /\ calls[Len(calls)].svc = "generateKeywords"
  /\ ~ calls[Len(calls)].ok

\* The calls are made stage by stage: app data, then generation, then scoring.
StagesInOrder ==
  \A j, k \in 1..Len(calls) :
    j < k =>
      /\ ~ (calls[j].svc = "generateKeywords"
            /\ calls[k].svc \in { "getAppData", "getSimilarApps" })
      /\ ~ (calls[j].svc = "analyzeKeyword" /\ calls[k].svc # "analyzeKeyword")

ScoringCalls == SelectSeq(calls, LAMBDA c : c.svc = "analyzeKeyword")

\* C20 as stated: the stages run in order and the generated keywords are
\* scored through processKeywordsBatch.
C20_ScoredThroughOrchestrator ==
  /\ StagesInOrder
  /\ ScoringCalls # <<>> => batches # <<>>

\* C20: analyzeApp runs collectAppData, then generateAppKeywords, then
\* analyzeRandomKeywords: no generation call before collection has finished, no
\* scoring call before generation has finished, a run that resolves has fetched
\* the main app and generated its keywords, and the scoring is done by
\* analyzeRandomKeywords, which calls the scorer directly for the sampled
\* keywords (5 at most) one after the other; processKeywordsBatch issues no
\* batch and takes no delay.
C20_Sequenced ==
  /\ StagesInOrder
  /\ pc = "resolved" =>
       /\ calls[1].svc = "getAppData" /\ calls[1].ok
       /\ \E g \in 1..Len(calls) : calls[g].svc = "generateKeywords" /\ calls[g].ok
  /\ LET scored == ScoringCalls
     IN  /\ Len(random5Keywords) <= 5
         /\ Len(scored) <= Len(random5Keywords)
         /\ \A k \in 1..Len(scored) : scored[k].arg = random5Keywords[k]
         /\ scored # <<>> => asoAnalyzer = "itunes"
  /\ batches = <<>>
  /\ promises = <<>>
  /\ delays = 0

\* C20 witness: a run resolved after calls of all three stages, with scored
\* keywords and no batch.
C20_Witness ==
  /\ pc = "resolved"
  /\ Len(keywordAnalysis) >= 2
  /\ Len(similarAppsData) >= 1
  /\ Len(ScoringCalls) > Len(keywordAnalysis)
  /\ batches = <<>>

\* The sample has been taken.
Sampled == pc \in { "analyzeLoop", "resolved" }

\* The entries of the sample come from distinct positions of the pool: no
\* keyword occurs in the sample more often than in the pool.
FromDistinctPositions(sample, pool) ==
  \A k \in 1..Len(sample) :
    /\ Occurrences(pool, sample[k]) >= 1
    /\ Occurrences(sample, sample[k]) <= Occurrences(pool, sample[k])

\* C21 as stated: for every pool the sample has exactly 5 entries, taken from
\* 5 distinct positions of the pool.
C21_ExactlyFive ==
  Sampled =>
    /\ Len(random5Keywords) = 5
    /\ FromDistinctPositions(random5Keywords, allKeywords)

\* C21: the sample has 5 entries when the pool has 5 or more and the whole
\* pool otherwise, its entries come from distinct positions of the pool, and
\* the caller's pool is never modified.
C21_SampleWithoutReplacement ==
  /\ [](Sampled =>
          /\ Len(random5Keywords) = Min(5, Len(allKeywords))
          /\ FromDistinctPositions(random5Keywords, allKeywords))
  /\ [][allKeywords' = allKeywords]_vars

\* C21 witness: a sample of 5 out of a pool of 6 that is not the pool's first
\* five, and the pool as it was.
C21_Witness ==
  /\ Sampled
  /\ allKeywords = << 1, 2, 3, 4, 5, 6 >>
  /\ random5Keywords = << 6, 2, 5, 1, 3 >>

\* C22: in a search started from the command line, failed scoring calls never
\* lead to the fatal exit: the run does not reject, the exit code stays unset,
\* the returned list has one result per keyword, and exit code 1 is only set by
\* the entry validation or by a rejection of searchKeywords.
C22_FailuresKeepExitStatus ==
  /\ pc \notin { "main", "exit" } => pc # "rejected" /\ exitCode = "running"
  /\ pc = "returned" => Len(results) = Len(keywords)
  /\ exitCode = "1" => pc \in { "exit", "rejected" }

\* C22 witness: a command-line search returned with a full list although every
\* one of its scoring calls failed.
C22_Witness ==
  /\ pc = "returned"
  /\ argv # <<>>
  /\ exitCode = "running"
  /\ Len(results) >= 2
  /\ Len(results) = Len(keywords)
  /\ \A k \in 1..Len(results) : "error" \in DOMAIN results[k]

\* C23: there is no timeout and no cancellation.  A pending scoring call is
\* settled by the scorer alone, and a step that leaves a call of the batch
\* pending issues no batch, starts no delay, pushes no result and does not
\* leave the await: while a call hangs, the batch stalls and the run does not
\* return.
C23_HungCallStalls ==
  [][/\ \A p \in DOMAIN promises :
          (promises[p].state = "pending" /\ promises'[p].state # "pending") =>
            /\ outcome'[p] \in Outcomes(keywords[p])
            /\ promises'[p] = AnalyzeKeywordParallel(keywords[p], outcome'[p])
     /\ (\E p \in DOMAIN promises :
           promises[p].state = "pending" /\ promises'[p].state = "pending") =>
          /\ pc = "await" /\ pc' = "await"
          /\ i' = i
          /\ batches' = batches
          /\ scorerCalls' = scorerCalls
          /\ delays' = delays
          /\ results' = results]_vars

\* C23 witness: in a batch that is not the last, one call has settled and
\* another is still pending.
C23_Witness ==
  /\ pc = "await"
  /\ i + Len(batch) < Len(keywords)
  /\ \E p, q \in DOMAIN promises :
       /\ promises[p].state = "pending"
       /\ promises[q].state = "fulfilled"
       /\ q > i

\* The results the orchestrator's contract gives for a keyword string and the
\* scorer's outcome per keyword, ranked.
RankedReport(str, outs) ==
  LET kws == ParseKeywords(str)
  IN  SortResults([p \in 1..Len(kws) |-> AnalyzeKeywordParallel(kws[p], outs[p]).value])

\* C24: what searchKeywords returns is a function of the keyword string and of
\* the scorer's outcome per keyword alone: the width, the order in which the
\* concurrent calls completed and the calls made before do not show in it.
C24_Deterministic ==
  pc = "returned" => results = RankedReport(keywordsString, outcome)

\* C24 witness: a second call has returned a report that the ranking had to
\* reorder.
C24_Witness ==
  /\ pc = "returned"
  /\ run = 2
  /\ Len(results) = 2
  /\ results # Orchestrated

\* The calls of the keyword generator made so far.
GenerateCalls == SelectSeq(calls, LAMBDA c : c.svc = "generateKeywords")

\* generateAppKeywords has returned.
GenerateDone == pc \in { "analyzeRandomKeywords", "analyzeLoop", "resolved" }

\* The keywords of the apps the calls `gen` were made for, one call after the
\* other.
RECURSIVE KeywordsGenerated(_)
KeywordsGenerated(gen) ==
  IF Len(gen) = 0 THEN <<>>
  ELSE SimilarKeywords(AppDataOf(gen[1].arg)) \o KeywordsGenerated(Tail(gen))

\* C25: the generator is called for the main app first and then once for each
\* fetched similar app, in order; a failed call for a similar app leaves out
\* that app's keywords only and does not stop the run; allKeywords is the main
\* app's keywords followed by those of the similar apps whose call succeeded,
\* in order.
C25_KeywordsForAllApps ==
  LET gen        == GenerateCalls
      similarGen == SubSeq(gen, 2, Len(gen))
      succeeded  == SelectSeq(similarGen, LAMBDA c : c.ok)
  IN  /\ gen # <<>> => gen[1].arg = appData.id
      /\ Len(similarGen) <= Len(similarAppsData)
      /\ \A k \in 1..Len(similarGen) : similarGen[k].arg = similarAppsData[k].id
      /\ (gen # <<>> /\ gen[1].ok) => similarAppKeywords = KeywordsGenerated(succeeded)
      /\ (pc = "rejected" /\ error = GenerateError) => Len(gen) = 1
      /\ GenerateDone =>
           /\ gen[1].ok
           /\ Len(similarGen) = Len(similarAppsData)
           /\ allKeywords = mainAppKeywords \o KeywordsGenerated(succeeded)

\* C25 witness: of three fetched similar apps the second one's generation
\* failed, and allKeywords holds the main app's keyword and the other two's.
C25_Witness ==
  /\ pc = "analyzeRandomKeywords"
  /\ Len(similarAppsData) = 3
  /\ Len(GenerateCalls) = 4
  /\ ~ GenerateCalls[3].ok
  /\ allKeywords = << 1, similarAppsData[1].id, similarAppsData[3].id >>

\* C26: when every issued scoring call settles and every delay elapses,
\* processKeywordsBatch, once entered, returns; and every pass of its loop
\* ends with the batch index strictly larger than before.
C26_Terminates ==
  /\ (pc = "loop") ~> (pc = "rank")
  /\ [][(pc \in { "await", "delay" } /\ pc' = "loop") => i' > i]_vars

\* C26 witness: processKeywordsBatch has returned after three passes of its
\* loop, with a delay between them.
C26_Witness ==
  /\ pc = "rank"
  /\ Len(batches) = 3
  /\ delays = 2

\* searchKeywords was called with a width below 1 and found keywords.
UncheckedWidth == concurrency < 1 /\ pc # "start" /\ Len(keywords) > 0

\* The original reading of C27: with a width of 0 or below and at least one
\* keyword, the loop index never passes the input, no scoring call is ever
\* issued and the run never returns.
C27_NoScoringCall ==
  UncheckedWidth =>
    /\ LoopCondition(i, Len(keywords))
    /\ \A p \in DOMAIN scorerCalls : scorerCalls[p] = 0
    /\ pc \in { "loop", "await", "delay" }

\* The keywords the first pass slices, keywords.slice(0, width): none for
\* width 0, all but the last -width ones for a negative width.
FirstPassSize == IF concurrency = 0 THEN 0 ELSE Max(Len(keywords) + concurrency, 0)

\* C27: searchKeywords called directly with a width of 0 or below and at
\* least one keyword never returns: the loop index never passes the input (it
\* stays 0, or falls), every pass ends in an inter-batch delay, and the run
\* stays in the loop.  With width 0 no scoring call is issued; with a negative
\* width the first pass scores all but the last -width keywords, once each,
\* and every later pass scores nothing.
C27_NeverReturns ==
  /\ [](UncheckedWidth =>
         /\ LoopCondition(i, Len(keywords))
         /\ i = (0 - Len(batches)) * (0 - concurrency) + (IF pc = "loop" THEN 0 ELSE (0 - concurrency))
         /\ pc \in { "loop", "await", "delay" }
         /\ delays = IF pc = "await" THEN Len(batches) - 1 ELSE Len(batches)
         /\ \A p \in DOMAIN scorerCalls :
              scorerCalls[p] = IF batches # <<>> /\ p <= FirstPassSize THEN 1 ELSE 0
         /\ \A b \in DOMAIN batches :
              batches[b].size = IF b = 1 THEN FirstPassSize ELSE 0)
  /\ [][(UncheckedWidth /\ pc = "await" /\ pc' # "await") => pc' = "delay"]_vars

\* C27 witness: a run with a negative width is in its fourth delay, having
\* scored two of its three keywords in the first pass.
C27_Witness ==
  /\ concurrency < 0
  /\ pc = "delay"
  /\ delays = 4
  /\ scorerCalls = << 1, 1, 0 >>

\* C28: a failure of getSimilarApps is not isolated.  It comes right after the
\* main app's fetch succeeded, it makes collectAppData and analyzeApp reject
\* with the fetch's error, and it is the last call: no similar app is fetched,
\* no keyword is generated and no keyword is scored.
C28_SimilarListFailureAborts ==
  \A k \in 1..Len(calls) :
    (calls[k].svc = "getSimilarApps" /\ ~ calls[k].ok) =>
      /\ k = 2
      /\ calls[1] = Call("getAppData", numericAppId, TRUE)
      /\ appData = AppDataOf(numericAppId)
      /\ pc = "rejected"
      /\ error = FetchError
      /\ Len(calls) = 2
      /\ similarAppsData = <<>>
      /\ allKeywords = <<>>
      /\ keywordAnalysis = <<>>
      /\ asoAnalyzer = "none"
      /\ argv # <<>> => exitCode = "1"

\* C28 witness: analyzeApp rejected on the similar-apps list, holding the main
\* app's metadata.
C28_Witness ==
  /\ pc = "rejected"
  /\ Len(calls) = 2
  /\ calls[2] = Call("getSimilarApps", numericAppId, FALSE)
  /\ appData = AppDataOf(numericAppId)

\* The keywords of the scoring calls that succeeded, in call order.
ScoredKeywords ==
  LET ok == SelectSeq(ScoringCalls, LAMBDA c : c.ok)
  IN  [k \in 1..Len(ok) |-> ok[k].arg]

\* C29: analyzeRandomKeywords scores the sampled keywords one at a time, in
\* selection order, each call settled before the next is made, with no delay
\* and no batch; its list holds one { keyword, traffic, difficulty } entry per
\* successful call, in that order, and nothing for a failed call, so it is no
\* longer than the sample.
C29_FailuresOmitted ==
  /\ [](Sampled =>
         /\ Len(ScoringCalls) = IF pc = "analyzeLoop" THEN pos - 1 ELSE Len(random5Keywords)
         /\ \A k \in 1..Len(ScoringCalls) : ScoringCalls[k].arg = random5Keywords[k]
         /\ [k \in 1..Len(keywordAnalysis) |-> keywordAnalysis[k].keyword] = ScoredKeywords
         /\ \A k \in 1..Len(keywordAnalysis) :
              DOMAIN keywordAnalysis[k] = { "keyword", "traffic", "difficulty" }
         /\ Len(keywordAnalysis) <= Len(random5Keywords)
         /\ delays = 0
         /\ batches = <<>>)
  /\ [][Len(calls') <= Len(calls) + 1]_vars

\* C29 witness: all five sampled keywords were scored, every call failed, and
\* analyzeRandomKeywords returned an empty list.
C29_Witness ==
  /\ pc = "resolved"
  /\ Len(random5Keywords) = 5
  /\ Len(ScoringCalls) = 5
  /\ \A k \in 1..5 : ~ ScoringCalls[k].ok
  /\ keywordAnalysis = <<>>

\* C30: until the ranking reorders them, the result at every position of
\* processKeywordsBatch's list names the input keyword of that position: a
\* degraded result carries the input string, a successful one the keyword of
\* the analysis the scorer returned for that position's call.
C30_KeywordField ==
  pc \in { "loop", "await", "delay", "rank" } =>
    \A p \in 1..Len(results) :
      /\ results[p].keyword = keywords[p]
      /\ IF outcome[p].ok
         THEN /\ results[p].keyword = outcome[p].analysis.keyword
              /\ "error" \notin DOMAIN results[p]
         ELSE /\ outcome[p] # NoOutcome
              /\ "error" \in DOMAIN results[p]

\* C30 witness: processKeywordsBatch returned three results, the first
\* degraded and the second, for another keyword, successful.
C30_Witness ==
  /\ pc = "rank"
  /\ Len(results) = 3
  /\ keywords[1] # keywords[2]
  /\ ~ outcome[1].ok
  /\ outcome[2].ok

====
